---------------------------- MODULE Spec2Model ----------------------------
(***************************************************************************)
(* Model of src/dxf_plate.py: one call of parse_dxf_plate_parts, from the  *)
(* resolution of its configuration to the returned list of DetectedPart    *)
(* records (or the error raised by ezdxf.readfile).                        *)
(*                                                                         *)
(* Text is modelled as a sequence of one-character strings, so that        *)
(* upper(), lower(), strip(), rsplit() and the substring test are computed *)
(* rather than assumed.  A ring (shapely Polygon) is an axis-aligned       *)
(* rectangle with integer corners; `id` is the identity of the Python      *)
(* object (the position of the entity that produced it), which the         *)
(* geometric predicates never read.  A scaled length is a rational         *)
(* [n, d]; values of a DetectedPart are in thousandths, as round(x, 3)     *)
(* leaves them.                                                            *)
(***************************************************************************)
EXTENDS Integers, Sequences, FiniteSets

VARIABLES
    file_readable,   \* whether ezdxf.readfile can read file_bytes
    filename,        \* argument filename
    units,           \* argument units
    ignore_arg,      \* argument ignore_layer_substrings: [given, list]
    msp,             \* the entities of the document's modelspace
    pc,              \* position in parse_dxf_plate_parts
    ignore,          \* local ignore (line 192)
    sf,              \* local sf (line 193), a rational [n, d]
    ei,              \* number of entities the collect loop has visited
    polys,           \* polys
    polys_sorted,    \* polys_sorted
    oi,              \* number of rings the outer loop has visited
    outers,          \* outers
    hi,              \* number of rings the hole loop has visited
    holes_by_outer,  \* holes_by_outer
    groups,          \* groups
    parts,           \* parts
    result           \* "none" while running, "list" or "error" at the end

vars == << file_readable, filename, units, ignore_arg, msp, pc, ignore, sf, ei,
           polys, polys_sorted, oi, outers, hi, holes_by_outer, groups, parts,
           result >>

inputs == << file_readable, filename, units, ignore_arg, msp >>

---------------------------------------------------------------------------
(* Bounds of the model.                                                    *)

MaxEntities == 3

MaxRings == 4

MaxParts == 3

---------------------------------------------------------------------------
(* Text.                                                                   *)

LowerLetters ==
    << "a","b","c","d","e","f","g","h","i","j","k","l","m",
       "n","o","p","q","r","s","t","u","v","w","x","y","z" >>

UpperLetters ==
    << "A","B","C","D","E","F","G","H","I","J","K","L","M",
       "N","O","P","Q","R","S","T","U","V","W","X","Y","Z" >>

UpperChar(c) ==
    IF \E i \in DOMAIN LowerLetters : LowerLetters[i] = c
    THEN UpperLetters[CHOOSE i \in DOMAIN LowerLetters : LowerLetters[i] = c]
    ELSE c

LowerChar(c) ==
    IF \E i \in DOMAIN UpperLetters : UpperLetters[i] = c
    THEN LowerLetters[CHOOSE i \in DOMAIN UpperLetters : UpperLetters[i] = c]
    ELSE c

Upper(s) == [i \in DOMAIN s |-> UpperChar(s[i])]

Lower(s) == [i \in DOMAIN s |-> LowerChar(s[i])]

RECURSIVE LStrip(_)
LStrip(s) == IF s # << >> /\ Head(s) = " " THEN LStrip(Tail(s)) ELSE s

RECURSIVE RStrip(_)
RStrip(s) ==
    IF s # << >> /\ s[Len(s)] = " " THEN RStrip(SubSeq(s, 1, Len(s) - 1)) ELSE s

Strip(s) == RStrip(LStrip(s))

\* Python's `a in b` on str
IsSubstring(a, b) ==
    \E k \in 0 .. (Len(b) - Len(a)) : SubSeq(b, k + 1, k + Len(a)) = a

DigitChars == << "0","1","2","3","4","5","6","7","8","9" >>

\* str(n) for n >= 0, as the f-string formats idx
RECURSIVE IntToStr(_)
IntToStr(n) ==
    IF n < 10 THEN << DigitChars[n + 1] >>
    ELSE IntToStr(n \div 10) \o << DigitChars[(n % 10) + 1] >>

\* filename.rsplit(".", 1)[0]
RSplitBase(name) ==
    LET dots == {i \in DOMAIN name : name[i] = "."}
    IN  IF dots = {} THEN name
        ELSE SubSeq(name, 1, (CHOOSE i \in dots : \A j \in dots : j <= i) - 1)

PartInfix == << " ", "-", " ", "P", "a", "r", "t", " " >>

---------------------------------------------------------------------------
(* Configuration.                                                          *)

DEFAULT_IGNORE_LAYER_SUBSTRINGS ==
    << << "E","T","C","H" >>,
       << "S","C","R","I","B","E" >>,
       << "E","N","G","R","A","V","E" >>,
       << "M","A","R","K" >>,
       << "T","E","X","T" >>,
       << "D","I","M" >>,
       << "C","E","N","T","E","R" >>,
       << "C","L" >> >>

MillimeterNames ==
    { << "m","m" >>,
      << "m","i","l","l","i","m","e","t","e","r" >>,
      << "m","i","l","l","i","m","e","t","e","r","s" >> }

\* 1 / 25.4 = 10 / 254
_scale_factor(u0) ==
    LET u == Lower(Strip(IF u0 = << >> THEN << "i","n" >> ELSE u0))
    IN  IF u \in MillimeterNames THEN [n |-> 10, d |-> 254] ELSE [n |-> 1, d |-> 1]

_layer_is_ignored(layer_name, ignore_substrings) ==
    LET name == Upper(layer_name)
    IN  \E k \in DOMAIN ignore_substrings :
            /\ ignore_substrings[k] # << >>
            /\ IsSubstring(Upper(ignore_substrings[k]), name)

\* ignore_layer_substrings or list(DEFAULT_IGNORE_LAYER_SUBSTRINGS)
ResolveIgnore(arg) ==
    IF arg.given /\ arg.list # << >> THEN arg.list
    ELSE DEFAULT_IGNORE_LAYER_SUBSTRINGS

---------------------------------------------------------------------------
(* Geometry.  A ring is [id, x1, y1, x2, y2] with x1 <= x2 and y1 <= y2.   *)

Area(p) == (p.x2 - p.x1) * (p.y2 - p.y1)

\* p.exterior.length
ExteriorLength(p) == 2 * ((p.x2 - p.x1) + (p.y2 - p.y1))

\* the interiors of o and p meet
Overlaps(o, p) ==
    /\ o.x1 < p.x2 /\ p.x1 < o.x2
    /\ o.y1 < p.y2 /\ p.y1 < o.y2

\* o.contains(p) and prep(o).contains(p), for rings of positive area
Contains(o, p) ==
    /\ o.x1 <= p.x1 /\ p.x2 <= o.x2
    /\ o.y1 <= p.y1 /\ p.y2 <= o.y2

\* p.equals(o): the same point set, whatever the objects
Equals(p, o) ==
    /\ p.x1 = o.x1 /\ p.x2 = o.x2
    /\ p.y1 = o.y1 /\ p.y2 = o.y2

---------------------------------------------------------------------------
(* Ingestion.  An entity is                                                *)
(*   [dxftype, layer, make_path, is_closed, flattening, nverts, polygon,   *)
(*    is_valid, x1, y1, x2, y2]                                            *)
(* where make_path is "raises", "none" or "path", flattening is "raises"   *)
(* or "vertices", nverts the number of vertices flattening yields and      *)
(* polygon "raises" or "built".                                            *)

SkippedTypes == {"TEXT", "MTEXT", "DIMENSION", "LEADER", "MLEADER", "HATCH"}

RingOf(e, id) == [id |-> id, x1 |-> e.x1, y1 |-> e.y1, x2 |-> e.x2, y2 |-> e.y2]

\* faulty variant: the test of is_closed is left out
PolygonFromEntityKeepsOpen(e, id) ==
    IF e.make_path # "path" THEN << >>
    ELSE IF e.flattening = "raises" THEN << >>
    ELSE IF e.nverts < 4 THEN << >>
    ELSE IF e.polygon = "raises" THEN << >>
    ELSE IF ~e.is_valid \/ Area(RingOf(e, id)) <= 0 THEN << >>
    ELSE << RingOf(e, id) >>

\* << >> is None, << ring >> the polygon returned
_polygon_from_entity(e, id) ==
    IF e.make_path = "raises" THEN << >>
    ELSE IF e.make_path = "none" THEN << >>
    ELSE IF ~e.is_closed THEN << >>
    ELSE IF e.flattening = "raises" THEN << >>
    ELSE IF e.nverts < 4 THEN << >>
    ELSE IF e.polygon = "raises" THEN << >>
    ELSE IF ~e.is_valid \/ Area(RingOf(e, id)) <= 0 THEN << >>
    ELSE << RingOf(e, id) >>

\* one iteration of the loop of _collect_closed_polygons: what it appends
CollectOne(e, id, ignore_substrings) ==
    IF e.dxftype \in SkippedTypes THEN << >>
    ELSE IF _layer_is_ignored(e.layer, ignore_substrings) THEN << >>
    ELSE _polygon_from_entity(e, id)

---------------------------------------------------------------------------
(* Classification.                                                         *)

\* faulty variant: ascending order
InsertAsc(sorted, p) ==
    LET k == Cardinality({i \in DOMAIN sorted : Area(sorted[i]) <= Area(p)})
    IN  SubSeq(sorted, 1, k) \o << p >> \o SubSeq(sorted, k + 1, Len(sorted))

\* faulty variant: of equal areas the later ring comes first
InsertDescTiesFirst(sorted, p) ==
    LET k == Cardinality({i \in DOMAIN sorted : Area(sorted[i]) > Area(p)})
    IN  SubSeq(sorted, 1, k) \o << p >> \o SubSeq(sorted, k + 1, Len(sorted))

\* sorted(..., reverse=True) is stable: an element goes after every element
\* whose area is not smaller
InsertDesc(sorted, p) ==
    LET k == Cardinality({i \in DOMAIN sorted : Area(sorted[i]) >= Area(p)})
    IN  SubSeq(sorted, 1, k) \o << p >> \o SubSeq(sorted, k + 1, Len(sorted))

\* sorted(polys, key=lambda p: p.area, reverse=True)
RECURSIVE SortedByAreaDesc(_)
SortedByAreaDesc(ps) ==
    IF ps = << >> THEN << >>
    ELSE InsertDesc(SortedByAreaDesc(SubSeq(ps, 1, Len(ps) - 1)), ps[Len(ps)])

\* faulty variant: the containment test the wrong way round
AcceptsContained(p, os) == \A i \in DOMAIN os : ~Contains(p, os[i])

\* not any(o.contains(p) for o in outers)
IsOuterProfile(p, os) == ~ \E i \in DOMAIN os : Contains(os[i], p)

\* any(p.equals(o) for o in outers)
IsOuterItself(p, os) == \E i \in DOMAIN os : Equals(p, os[i])

\* faulty variant: overlap taken for containment
RECURSIVE ContainingFromOverlaps(_, _, _)
ContainingFromOverlaps(p, os, i) ==
    IF i > Len(os) THEN << >>
    ELSE (IF Overlaps(os[i], p) THEN << [i |-> i, area |-> Area(os[i])] >> ELSE << >>)
         \o ContainingFromOverlaps(p, os, i + 1)

\* the entries of `containing` that the outers from the i-th on add
RECURSIVE ContainingFrom(_, _, _)
ContainingFrom(p, os, i) ==
    IF i > Len(os) THEN << >>
    ELSE (IF Contains(os[i], p) THEN << [i |-> i, area |-> Area(os[i])] >> ELSE << >>)
         \o ContainingFrom(p, os, i + 1)

\* the list `containing` after the loop of lines 159-164
Containing(p, os) == ContainingFrom(p, os, 1)

\* containing.sort(key=lambda x: x[1]): stable, ascending
InsertByArea(sorted, c) ==
    LET k == Cardinality({j \in DOMAIN sorted : sorted[j].area <= c.area})
    IN  SubSeq(sorted, 1, k) \o << c >> \o SubSeq(sorted, k + 1, Len(sorted))

RECURSIVE SortContaining(_)
SortContaining(cs) ==
    IF cs = << >> THEN << >>
    ELSE InsertByArea(SortContaining(SubSeq(cs, 1, Len(cs) - 1)), cs[Len(cs)])

\* faulty variant: the largest containing outer
LargestContainingIndex(cs) == SortContaining(cs)[Len(cs)].i

\* containing[0][0] after the sort
ChosenOuterIndex(cs) == SortContaining(cs)[1].i

---------------------------------------------------------------------------
(* Normalisation and metrics.  A scaled ring carries the denominator d of  *)
(* its coordinates.                                                        *)

\* _scale_poly with factor f = n / d; the ring itself when sf == 1.0
ScaledRing(p, f) ==
    IF f.n = f.d
    THEN [x1 |-> p.x1, y1 |-> p.y1, x2 |-> p.x2, y2 |-> p.y2, d |-> 1]
    ELSE [x1 |-> p.x1 * f.n, y1 |-> p.y1 * f.n,
          x2 |-> p.x2 * f.n, y2 |-> p.y2 * f.n, d |-> f.d]

\* round(n / d, 3) in thousandths, ties to even
Round3(n, d) ==
    LET q == (1000 * n) \div d
        r == (1000 * n) % d
    IN  IF 2 * r < d THEN q
        ELSE IF 2 * r > d THEN q + 1
        ELSE IF q % 2 = 0 THEN q ELSE q + 1

RECURSIVE SumSeq(_)
SumSeq(xs) == IF xs = << >> THEN 0 ELSE Head(xs) + SumSeq(Tail(xs))

\* [float(h.exterior.length) for h in holes_s], numerators over f.d
HolePerims(holes, f) ==
    [k \in DOMAIN holes |-> ExteriorLength(ScaledRing(holes[k], f))]

\* faulty variant: the holes are not cut
CutPerimOuterOnly(outer_perim, hole_circ) == outer_perim

\* cut_perim = outer_perim + hole_circ
CutPerim(outer_perim, hole_circ) == outer_perim + hole_circ

\* faulty variant: indices from 0
PartNameZeroBased(base, idx, n) ==
    IF n > 1 THEN base \o PartInfix \o IntToStr(idx - 1) ELSE base

\* f"{base} - Part {idx}" if len(groups) > 1 else base
PartName(base, idx, n) ==
    IF n > 1 THEN base \o PartInfix \o IntToStr(idx) ELSE base

\* the DetectedPart of the idx-th group (idx counts from 1)
MakePart(gs, idx, name, f) ==
    LET outer_s     == ScaledRing(gs[idx].outer, f)
        hole_perims == HolePerims(gs[idx].holes, f)
        outer_perim == ExteriorLength(outer_s)
        hole_circ   == SumSeq(hole_perims)
        cut_perim   == CutPerim(outer_perim, hole_circ)
    IN  [ part_name             |-> PartName(RSplitBase(name), idx, Len(gs)),
          bbox_w_in             |-> Round3(outer_s.x2 - outer_s.x1, outer_s.d),
          bbox_l_in             |-> Round3(outer_s.y2 - outer_s.y1, outer_s.d),
          cut_perimeter_in      |-> Round3(cut_perim, outer_s.d),
          hole_count            |-> Len(hole_perims),
          hole_circumference_in |-> Round3(hole_circ, outer_s.d) ]

---------------------------------------------------------------------------
(* The call, step by step.                                                 *)

\* lines 192-193
Configure ==
    /\ pc = "start"
    /\ ignore' = ResolveIgnore(ignore_arg)
    /\ sf' = _scale_factor(units)
    /\ pc' = "read"
    /\ UNCHANGED << inputs, ei, polys, polys_sorted, oi, outers, hi,
                    holes_by_outer, groups, parts, result >>

\* faulty variant: the read error is caught and an empty list returned
ReadFileSwallowsError ==
    /\ pc = "read"
    /\ ~file_readable
    /\ pc' = "done"
    /\ result' = "list"
    /\ UNCHANGED << inputs, ignore, sf, ei, polys, polys_sorted, oi, outers, hi,
                    holes_by_outer, groups, parts >>

\* lines 196-199, ezdxf.readfile raises: nothing catches it
ReadFileRaises ==
    /\ pc = "read"
    /\ ~file_readable
    /\ pc' = "raised"
    /\ result' = "error"
    /\ UNCHANGED << inputs, ignore, sf, ei, polys, polys_sorted, oi, outers, hi,
                    holes_by_outer, groups, parts >>

\* lines 196-199, ezdxf.readfile returns the document
ReadFileOk ==
    /\ pc = "read"
    /\ file_readable
    /\ pc' = IF msp = << >> THEN "assign" ELSE "collect"
    /\ UNCHANGED << inputs, ignore, sf, ei, polys, polys_sorted, oi, outers, hi,
                    holes_by_outer, groups, parts, result >>

\* lines 117-129, one entity
CollectEntity ==
    /\ pc = "collect"
    /\ ei < Len(msp)
    /\ ei' = ei + 1
    /\ polys' = polys \o CollectOne(msp[ei + 1], ei + 1, ignore)
    /\ pc' = IF ei + 1 = Len(msp) THEN "assign" ELSE "collect"
    /\ UNCHANGED << inputs, ignore, sf, polys_sorted, oi, outers, hi,
                    holes_by_outer, groups, parts, result >>

\* lines 136-137
AssignNothing ==
    /\ pc = "assign"
    /\ polys = << >>
    /\ groups' = << >>
    /\ pc' = "return"
    /\ UNCHANGED << inputs, ignore, sf, ei, polys, polys_sorted, oi, outers, hi,
                    holes_by_outer, parts, result >>

\* line 140
SortPolys ==
    /\ pc = "assign"
    /\ polys # << >>
    /\ polys_sorted' = SortedByAreaDesc(polys)
    /\ pc' = "outers"
    /\ UNCHANGED << inputs, ignore, sf, ei, polys, oi, outers, hi,
                    holes_by_outer, groups, parts, result >>

\* lines 143-146, one ring; lines 149-150 after the last
OuterStep ==
    /\ pc = "outers"
    /\ oi < Len(polys_sorted)
    /\ LET p  == polys_sorted[oi + 1]
           os == IF IsOuterProfile(p, outers) THEN Append(outers, p) ELSE outers
       IN  /\ outers' = os
           /\ oi' = oi + 1
           /\ IF oi + 1 = Len(polys_sorted)
              THEN /\ holes_by_outer' = [i \in DOMAIN os |-> << >>]
                   /\ pc' = "holes"
              ELSE /\ UNCHANGED holes_by_outer
                   /\ pc' = "outers"
    /\ UNCHANGED << inputs, ignore, sf, ei, polys, polys_sorted, hi, groups,
                    parts, result >>

\* lines 152-168, one ring; line 170 after the last
HoleStep ==
    /\ pc = "holes"
    /\ hi < Len(polys_sorted)
    /\ LET p  == polys_sorted[hi + 1]
           cs == Containing(p, outers)
           hs == IF IsOuterItself(p, outers) \/ cs = << >>
                 THEN holes_by_outer
                 ELSE [holes_by_outer EXCEPT
                          ![ChosenOuterIndex(cs)] = Append(@, p)]
       IN  /\ holes_by_outer' = hs
           /\ hi' = hi + 1
           /\ IF hi + 1 = Len(polys_sorted)
              THEN /\ groups' = [i \in DOMAIN outers |->
                                    [outer |-> outers[i], holes |-> hs[i]]]
                   /\ pc' = "parts"
              ELSE /\ UNCHANGED groups
                   /\ pc' = "holes"
    /\ UNCHANGED << inputs, ignore, sf, ei, polys, polys_sorted, oi, outers,
                    parts, result >>

\* lines 207-243, one group
PartStep ==
    /\ pc = "parts"
    /\ Len(parts) < Len(groups)
    /\ parts' = Append(parts, MakePart(groups, Len(parts) + 1, filename, sf))
    /\ pc' = IF Len(parts) + 1 = Len(groups) THEN "return" ELSE "parts"
    /\ UNCHANGED << inputs, ignore, sf, ei, polys, polys_sorted, oi, outers, hi,
                    holes_by_outer, groups, result >>

\* line 245
Return ==
    /\ pc = "return"
    /\ result' = "list"
    /\ pc' = "done"
    /\ UNCHANGED << inputs, ignore, sf, ei, polys, polys_sorted, oi, outers, hi,
                    holes_by_outer, groups, parts >>

Next ==
    \/ Configure
    \/ ReadFileRaises
    \/ ReadFileOk
    \/ CollectEntity
    \/ AssignNothing
    \/ SortPolys
    \/ OuterStep
    \/ HoleStep
    \/ PartStep
    \/ Return

---------------------------------------------------------------------------
(* Inputs.                                                                 *)

SeqsUpTo(S, n) == UNION {[1 .. k -> S] : k \in 0 .. n}

Layer0 == << "0" >>

\* a closed LWPOLYLINE on layer 0 that converts to the ring <<x1, y1, x2, y2>>
Rect(x1, y1, x2, y2) ==
    [ dxftype |-> "LWPOLYLINE", layer |-> Layer0, make_path |-> "path",
      is_closed |-> TRUE, flattening |-> "vertices", nverts |-> 5,
      polygon |-> "built", is_valid |-> TRUE,
      x1 |-> x1, y1 |-> y1, x2 |-> x2, y2 |-> y2 ]

\* rings that nest, overlap, lie apart and share areas
RingShapes ==
    { Rect(0, 0, 6, 6),      \* area 36
      Rect(1, 1, 5, 5),      \* area 16, inside the first
      Rect(2, 2, 3, 3),      \* area 1, inside the first two
      Rect(4, 4, 8, 8),      \* area 16, overlaps the first, inside none
      Rect(4, 4, 5, 5),      \* area 1, inside the first, second and fourth
      Rect(7, 0, 9, 2),      \* area 4, apart from all
      Rect(10, 0, 16, 6) }   \* area 36, apart from all

PartShapes ==
    { Rect(0, 0, 6, 6), Rect(1, 1, 5, 5), Rect(2, 2, 3, 3), Rect(7, 0, 10, 2) }

\* entities on ignored layers and of skipped types, next to two that convert
LayerKinds ==
    { Rect(0, 0, 6, 6),
      Rect(7, 0, 9, 2),
      [Rect(2, 2, 3, 3) EXCEPT !.layer = << "E","t","c","h","-","1" >>],
      [Rect(4, 4, 5, 5) EXCEPT !.layer = << "c","u","t" >>],
      [Rect(1, 1, 5, 5) EXCEPT !.dxftype = "MTEXT"],
      [Rect(1, 1, 5, 5) EXCEPT !.is_closed = FALSE] }

\* one entity for every way _polygon_from_entity gives up, next to two
\* that convert and one on an ignored layer
ConversionKinds ==
    LET bad == Rect(1, 1, 5, 5)
    IN  { Rect(0, 0, 6, 6),
          Rect(2, 2, 3, 3),
          [Rect(4, 4, 5, 5) EXCEPT !.layer = << "d","i","m","s" >>],
          [bad EXCEPT !.make_path = "raises"],
          [bad EXCEPT !.make_path = "none"],
          [bad EXCEPT !.is_closed = FALSE],
          [bad EXCEPT !.flattening = "raises"],
          [bad EXCEPT !.nverts = 3],
          [bad EXCEPT !.polygon = "raises"],
          [bad EXCEPT !.is_valid = FALSE],
          [bad EXCEPT !.x2 = 1] }

NoIgnoreArg == [given |-> FALSE, list |-> << >>]

IgnoreArgs ==
    { NoIgnoreArg,
      [given |-> TRUE, list |-> << >>],
      [given |-> TRUE, list |-> << << "c","u" >> >>],
      [given |-> TRUE, list |-> << << >>, << "e","T","c","H" >> >>] }

Filenames ==
    { << "p",".","d","x","f" >>,
      << "a",".","b",".","d","x","f" >>,
      << "p","l","a","t","e" >>,
      << ".","d","x","f" >> }

UnitNames ==
    { << "i","n" >>, << " ","M","m"," " >>, << >>,
      << "M","i","l","l","i","m","e","t","e","r","s" >> }

DefaultFilename == << "p","a","r","t",".","d","x","f" >>

DefaultUnits == << "i","n" >>

\* the state when the call starts; an unreadable file holds no document
InitCall(names, unitset, args, docs) ==
    /\ file_readable \in BOOLEAN
    /\ filename \in names
    /\ units \in unitset
    /\ ignore_arg \in args
    /\ msp \in docs
    /\ ~file_readable => msp = << >>
    /\ pc = "start"
    /\ ignore = << >>
    /\ sf = [n |-> 1, d |-> 1]
    /\ ei = 0
    /\ polys = << >>
    /\ polys_sorted = << >>
    /\ oi = 0
    /\ outers = << >>
    /\ hi = 0
    /\ holes_by_outer = << >>
    /\ groups = << >>
    /\ parts = << >>
    /\ result = "none"

\* layer and type filtering: every ignore argument
Init ==
    InitCall({DefaultFilename}, {DefaultUnits}, IgnoreArgs,
             SeqsUpTo(LayerKinds, MaxEntities))

Spec == Init /\ [][Next]_vars

\* conversion: every way an entity fails to convert, at every position
InitConvert ==
    InitCall({DefaultFilename}, {DefaultUnits}, {NoIgnoreArg},
             SeqsUpTo(ConversionKinds, MaxEntities))

SpecConvert == InitConvert /\ [][Next]_vars

\* classification: rings in every order
InitClassify ==
    InitCall({DefaultFilename}, {DefaultUnits}, {NoIgnoreArg},
             SeqsUpTo(RingShapes, MaxRings))

SpecClassify == InitClassify /\ [][Next]_vars

\* metrics and names: every filename and unit
InitParts ==
    InitCall(Filenames, UnitNames, {NoIgnoreArg}, SeqsUpTo(PartShapes, MaxParts))

SpecParts == InitParts /\ [][Next]_vars

---------------------------------------------------------------------------
(* Properties of the classification.                                       *)

Returned == pc = "done" /\ result = "list"

OuterIds == {outers[i].id : i \in DOMAIN outers}

\* p lies inside o and touches neither its boundary nor all of it
StrictlyInside(p, o) ==
    /\ o.x1 < p.x1 /\ p.x2 < o.x2
    /\ o.y1 < p.y1 /\ p.y2 < o.y2

\* the eligible rings are exactly a, b, c with a around b around c
ThreeNested(a, b, c) ==
    /\ Len(polys) = 3
    /\ {a, b, c} = {polys[k] : k \in DOMAIN polys}
    /\ StrictlyInside(b, a)
    /\ StrictlyInside(c, b)

Rings == {polys[k] : k \in DOMAIN polys}

\* h is one of the holes of the group whose outer is o
HoleOf(h, o) ==
    \E g \in DOMAIN groups :
        /\ groups[g].outer = o
        /\ \E k \in DOMAIN groups[g].holes : groups[g].holes[k] = h

\* C1 as stated: of three strictly nested rings the middle one is a hole of
\* the outer one, the innermost a hole of the middle one and not of the
\* outer one.
C1_InnermostIsHoleOfMiddle ==
    Returned =>
        \A a \in Rings, b \in Rings, c \in Rings :
            ThreeNested(a, b, c) =>
                /\ HoleOf(b, a)
                /\ HoleOf(c, b)
                /\ ~HoleOf(c, a)

\* C1 amended: of three strictly nested rings only the outer one is an outer
\* profile; the call yields one group, whose holes are the middle ring and
\* the innermost ring, in that order.
C1_BothAreHolesOfOutermost ==
    Returned =>
        \A a \in Rings, b \in Rings, c \in Rings :
            ThreeNested(a, b, c) =>
                /\ Len(groups) = 1
                /\ groups[1].outer = a
                /\ groups[1].holes = << b, c >>
                /\ parts[1].hole_count = 2

C1_Witness ==
    /\ Returned
    /\ \E a \in Rings, b \in Rings, c \in Rings :
           /\ ThreeNested(a, b, c)
           /\ polys[1] = c
           /\ HoleOf(c, a)

\* C7: a ring the outer loop has visited is an outer profile iff no outer
\* profile accepted before it contains it, and no outer profile (hence no
\* group's outer ring) is contained in another one.
C7_OutersNotNested ==
    /\ \A k \in 1 .. oi :
           (polys_sorted[k].id \in OuterIds) <=>
               (\A j \in 1 .. (k - 1) :
                    polys_sorted[j].id \in OuterIds =>
                        ~Contains(polys_sorted[j], polys_sorted[k]))
    /\ \A i \in DOMAIN outers, j \in DOMAIN outers :
           i # j => ~Contains(outers[i], outers[j])
    /\ \A i \in DOMAIN groups, j \in DOMAIN groups :
           i # j => ~Contains(groups[i].outer, groups[j].outer)

\* two outers of one area, a duplicate of an outer and a nested ring
C7_Witness ==
    /\ Returned
    /\ Len(groups) >= 2
    /\ Area(groups[1].outer) = Area(groups[2].outer)
    /\ \E i \in DOMAIN polys, j \in DOMAIN polys :
           i # j /\ Equals(polys[i], polys[j])
    /\ Len(polys) > Len(groups)

\* the number of places a ring object holds in the hole lists of all groups
TimesAssigned(p) ==
    Cardinality({<< g, k >> \in (DOMAIN groups) \X (1 .. Len(polys)) :
                    k <= Len(groups[g].holes) /\ groups[g].holes[k] = p})

\* p is a hole of a group whose outer is a smallest outer containing p
InSmallestContainingOuter(p) ==
    \E g \in DOMAIN groups :
        /\ \E k \in DOMAIN groups[g].holes : groups[g].holes[k] = p
        /\ Contains(groups[g].outer, p)
        /\ \A g2 \in DOMAIN groups :
               Contains(groups[g2].outer, p) =>
                   Area(groups[g].outer) <= Area(groups[g2].outer)

\* C8 as stated: every ring that is not an outer profile is a hole of
\* exactly one group, the one with the smallest outer containing it.
C8_EveryNonOuterAssigned ==
    Returned =>
        \A k \in DOMAIN polys :
            polys[k].id \notin OuterIds =>
                /\ TimesAssigned(polys[k]) = 1
                /\ InSmallestContainingOuter(polys[k])

\* C8 amended: every ring that neither is an outer profile nor equals one
\* geometrically is a hole of exactly one group, the one with the smallest
\* outer containing it; a ring that equals an outer profile is in no group.
C8_EveryDistinctNonOuterAssigned ==
    Returned =>
        \A k \in DOMAIN polys :
            polys[k].id \notin OuterIds =>
                IF \E i \in DOMAIN outers : Equals(polys[k], outers[i])
                THEN TimesAssigned(polys[k]) = 0
                ELSE /\ TimesAssigned(polys[k]) = 1
                     /\ InSmallestContainingOuter(polys[k])

\* a hole inside two outers of different areas that do not nest
C8_Witness ==
    /\ Returned
    /\ \E k \in DOMAIN polys, i \in DOMAIN groups, j \in DOMAIN groups :
           /\ Contains(groups[i].outer, polys[k])
           /\ Contains(groups[j].outer, polys[k])
           /\ Area(groups[i].outer) < Area(groups[j].outer)
           /\ HoleOf(polys[k], groups[i].outer)

\* C9 as stated: every hole is contained in its group's outer ring and no
\* hole is contained in another hole of the same group.
C9_HolesInsideAndNotNested ==
    \A g \in DOMAIN groups :
        /\ \A k \in DOMAIN groups[g].holes :
               Contains(groups[g].outer, groups[g].holes[k])
        /\ \A k \in DOMAIN groups[g].holes, m \in DOMAIN groups[g].holes :
               k # m => ~Contains(groups[g].holes[k], groups[g].holes[m])

\* C9 amended: every hole is contained in its group's outer ring (holes of
\* one group may contain one another).
C9_HolesInsideOuter ==
    /\ \A g \in DOMAIN holes_by_outer :
           \A k \in DOMAIN holes_by_outer[g] :
               Contains(outers[g], holes_by_outer[g][k])
    /\ \A g \in DOMAIN groups :
           \A k \in DOMAIN groups[g].holes :
               Contains(groups[g].outer, groups[g].holes[k])

\* a group with a hole inside another of its holes
C9_Witness ==
    /\ Returned
    /\ \E g \in DOMAIN groups :
           \E k \in DOMAIN groups[g].holes, m \in DOMAIN groups[g].holes :
               /\ k # m
               /\ Contains(groups[g].holes[k], groups[g].holes[m])
               /\ ~Equals(groups[g].holes[k], groups[g].holes[m])

\* C10: the groups, and the records made from them, are in non-increasing
\* order of outer area, and outers of one area keep the order in which their
\* rings were collected.
C10_GroupsByAreaStable ==
    /\ \A i \in DOMAIN groups, j \in DOMAIN groups :
           i < j =>
               /\ Area(groups[i].outer) >= Area(groups[j].outer)
               /\ Area(groups[i].outer) = Area(groups[j].outer) =>
                      groups[i].outer.id < groups[j].outer.id
    /\ \A k \in DOMAIN parts :
           /\ k <= Len(groups)
           /\ parts[k].bbox_w_in * sf.d
                  = 1000 * sf.n * (groups[k].outer.x2 - groups[k].outer.x1)
           /\ parts[k].bbox_l_in * sf.d
                  = 1000 * sf.n * (groups[k].outer.y2 - groups[k].outer.y1)
    /\ Returned => Len(parts) = Len(groups)

\* two outers of one area, and a smaller one after them
C10_Witness ==
    /\ Returned
    /\ Len(groups) = 3
    /\ Area(groups[1].outer) = Area(groups[2].outer)
    /\ Area(groups[2].outer) > Area(groups[3].outer)

---------------------------------------------------------------------------
(* Properties of the ingestion.                                            *)

\* C2: when the bytes cannot be read as a drawing the call ends by raising
\* the read error: it returns no list and builds no DetectedPart.
C2_UnreadableRaises ==
    ~file_readable =>
        /\ pc \in {"start", "read", "raised"}
        /\ result # "list"
        /\ pc = "raised" => result = "error"
        /\ parts = << >>
        /\ polys = << >>

C2_Witness == ~file_readable /\ pc = "raised" /\ result = "error"

\* an entity whose path is built, closed, flattened to at least four
\* vertices and made into a valid polygon of positive area
Converts(e) ==
    /\ e.make_path = "path"
    /\ e.is_closed
    /\ e.flattening = "vertices"
    /\ e.nverts >= 4
    /\ e.polygon = "built"
    /\ e.is_valid
    /\ e.x1 < e.x2 /\ e.y1 < e.y2

\* the i-th entity converts, is of a cuttable type and lies on a layer that
\* is not ignored
Kept(i) ==
    /\ Converts(msp[i])
    /\ msp[i].dxftype \notin SkippedTypes
    /\ ~_layer_is_ignored(msp[i].layer, ignore)

\* C3: when the document is readable the call never raises, and the rings
\* collected are exactly those of the entities visited so far that convert,
\* in their order, wherever the failing entities lie among them.
C3_FailingEntitiesSkipped ==
    file_readable =>
        /\ pc # "raised" /\ result # "error"
        /\ \A i \in 1 .. ei :
               Kept(i) <=> \E k \in DOMAIN polys : polys[k].id = i
        /\ \A k \in DOMAIN polys :
               /\ polys[k].id \in 1 .. ei
               /\ polys[k] = RingOf(msp[polys[k].id], polys[k].id)
               /\ \A m \in DOMAIN polys : k < m => polys[k].id < polys[m].id
        /\ pc \in {"assign", "outers", "holes", "parts", "return", "done"} =>
               ei = Len(msp)

\* a failing entity between two that convert
C3_Witness ==
    /\ Returned
    /\ Len(msp) = 3
    /\ Converts(msp[1]) /\ ~Converts(msp[2]) /\ Converts(msp[3])
    /\ Len(polys) = 2
    /\ Len(parts) >= 1

\* C6 as stated: a list the caller supplies is the list the filter uses;
\* the default list is used only when the caller supplies none.
C6_CallerListUsed ==
    (pc # "start" /\ ignore_arg.given) => ignore = ignore_arg.list

---------------------------------------------------------------------------
(* Properties of the records.                                              *)

\* b is name without its extension: all of name when it has no ".", else
\* what precedes a "." that no "." follows
IsStem(b, name) ==
    \E n \in 0 .. Len(name) :
        /\ b = SubSeq(name, 1, n)
        /\ \/ n = Len(name) /\ \A j \in DOMAIN name : name[j] # "."
           \/ /\ n < Len(name)
              /\ name[n + 1] = "."
              /\ \A j \in (n + 2) .. Len(name) : name[j] # "."

\* the number a string of decimal digits denotes, -1 when it is none
RECURSIVE DecimalValue(_)
DecimalValue(ds) ==
    IF ds = << >> THEN -1
    ELSE LET last == ds[Len(ds)]
             rest == SubSeq(ds, 1, Len(ds) - 1)
         IN  IF ~ \E v \in 0 .. 9 : DigitChars[v + 1] = last THEN -1
             ELSE LET v == CHOOSE v \in 0 .. 9 : DigitChars[v + 1] = last
                  IN  IF rest = << >> THEN v
                      ELSE IF DecimalValue(rest) < 1 THEN -1
                      ELSE 10 * DecimalValue(rest) + v

\* name is "<b> - Part <k>"
IsNumberedName(name, b, k) ==
    /\ Len(name) > Len(b) + Len(PartInfix)
    /\ SubSeq(name, 1, Len(b)) = b
    /\ SubSeq(name, Len(b) + 1, Len(b) + Len(PartInfix)) = PartInfix
    /\ DecimalValue(SubSeq(name, Len(b) + Len(PartInfix) + 1, Len(name))) = k

\* C4: the call returns one record per group, in the order of the groups; a
\* single group is named by the filename without its extension, and of
\* n > 1 groups the k-th is named "<base> - Part k", so that the names are
\* numbered from 1 and differ.
C4_PartNames ==
    /\ \A k \in DOMAIN parts :
           /\ k <= Len(groups)
           /\ parts[k].hole_count = Len(groups[k].holes)
           /\ parts[k].bbox_w_in
                  = Round3(sf.n * (groups[k].outer.x2 - groups[k].outer.x1), sf.d)
           /\ parts[k].bbox_l_in
                  = Round3(sf.n * (groups[k].outer.y2 - groups[k].outer.y1), sf.d)
           /\ IF Len(groups) = 1
              THEN IsStem(parts[k].part_name, filename)
              ELSE \E b \in {SubSeq(filename, 1, n) : n \in 0 .. Len(filename)} :
                       /\ IsStem(b, filename)
                       /\ IsNumberedName(parts[k].part_name, b, k)
    /\ \A k \in DOMAIN parts, m \in DOMAIN parts :
           k # m => parts[k].part_name # parts[m].part_name
    /\ Returned => Len(parts) = Len(groups)

\* two parts from a file whose name holds two dots
C4_Witness ==
    /\ Returned
    /\ Len(parts) = 2
    /\ Cardinality({j \in DOMAIN filename : filename[j] = "."}) = 2

\* the boundary lengths of the rings of a list, added up
RECURSIVE TotalLength(_)
TotalLength(rings) ==
    IF rings = << >> THEN 0
    ELSE 2 * (Head(rings).x2 - Head(rings).x1)
         + 2 * (Head(rings).y2 - Head(rings).y1)
         + TotalLength(Tail(rings))

\* C5: a record's hole count is the number of holes of its group, its hole
\* circumference the (scaled, rounded) sum of the lengths of those holes and
\* its cut perimeter the (scaled, rounded) sum of the outer's length and the
\* lengths of those holes; the holes of another group add nothing.
C5_CutMetrics ==
    \A k \in DOMAIN parts :
        /\ parts[k].hole_count = Len(groups[k].holes)
        /\ parts[k].hole_circumference_in
               = Round3(sf.n * TotalLength(groups[k].holes), sf.d)
        /\ parts[k].cut_perimeter_in
               = Round3(sf.n * (TotalLength(<< groups[k].outer >>)
                                + TotalLength(groups[k].holes)), sf.d)

\* two parts in millimetres, one with a hole and one without
C5_Witness ==
    /\ Returned
    /\ sf.d # 1
    /\ Len(parts) = 2
    /\ parts[1].hole_count = 1
    /\ parts[2].hole_count = 0
    /\ parts[1].cut_perimeter_in > parts[1].hole_circumference_in

===========================================================================
